---- MODULE Spec2Model ----
(***************************************************************************)
(* Model of @airweave/vercel-ai-sdk (src/src/index.ts).                    *)
(*                                                                         *)
(* airweaveSearch(options) resolves its configuration, checks the          *)
(* credential, creates an AirweaveSDKClient and returns a tool whose       *)
(* execute forwards one search request to the remote service and reshapes  *)
(* the response.  The model keeps JavaScript's distinctions between        *)
(* undefined, null, the empty string and other values, because the code's  *)
(* behaviour rests on them (destructuring defaults, ??, !x, x && y).       *)
(***************************************************************************)
EXTENDS Integers, Sequences, FiniteSets, TLC

VARIABLES
    scenario,      \* which family of inputs this behaviour draws from
    env,           \* process.env.AIRWEAVE_API_KEY
    construction,  \* the airweaveSearch(options) call: arguments and outcome
    tool,          \* the closure of the returned tool, or NoTool
    execs,         \* the executions of the tool, by invocation
    sent,          \* per invocation, the search requests the client received
    settled,       \* per invocation, how the remote settled each request
    inFlightPeak   \* the most remote calls that were in flight at one time

vars == <<scenario, env, construction, tool, execs, sent, settled, inFlightPeak>>

---------------------------------------------------------------------------
(* Bounds of the model.                                                    *)

\* invocations of the tool that may be in progress or finished in one run
MaxExecs == 2

\* numbers are kept in units of 1/Denom, so that non-integers exist
Denom == 2

---------------------------------------------------------------------------
(* JavaScript values.                                                      *)

Undefined == [t |-> "undefined"]
Null == [t |-> "null"]
Str(s) == [t |-> "string", v |-> s]
Bool(b) == [t |-> "boolean", v |-> b]
\* the integer n
Num(n) == [t |-> "number", v |-> n * Denom]
\* the number n + 1/Denom, which is not an integer
NumPlusFraction(n) == [t |-> "number", v |-> n * Denom + 1]
Obj(r) == [t |-> "object", v |-> r]

IsInteger(x) == x.t = "number" /\ x.v % Denom = 0

\* ToBoolean(x)
Truthy(x) ==
    CASE x.t = "undefined" -> FALSE
      [] x.t = "null" -> FALSE
      [] x.t = "string" -> x.v # ""
      [] x.t = "number" -> x.v # 0
      [] x.t = "boolean" -> x.v
      [] OTHER -> TRUE

\* a destructuring default `{ x = d } = options`: used only when x is undefined
DefaultTo(x, d) == IF x.t = "undefined" THEN d ELSE x

\* x ?? d
Coalesce(x, d) == IF x.t \in {"undefined", "null"} THEN d ELSE x

\* x && y
AndAnd(x, y) == IF Truthy(x) THEN y ELSE x

\* { ...base, ...x } for an object literal base: spreading undefined, null,
\* false or the empty string adds no key
Spread(base, x) == IF x.t = "object" THEN x.v @@ base ELSE base

---------------------------------------------------------------------------
(* Program constants.                                                      *)

DefaultLimit == 10
MinQueryLength == 1
MaxQueryLength == 1000
MinLimit == 1
MaxLimit == 100

ApiKeyRequired ==
    [name |-> "Error",
     message |-> "Airweave API key is required. Set AIRWEAVE_API_KEY environment variable or pass apiKey option."]

CollectionRequired ==
    [name |-> "Error",
     message |-> "Collection is required. Pass collection in the query or set defaultCollection option."]

\* what the framework raises for an input the inputSchema does not accept
InvalidToolInput == [name |-> "InvalidToolInputError", message |-> "invalid input"]

NoTool == Undefined

---------------------------------------------------------------------------
(* airweaveSearch(options).                                                *)

\* the options object `{}`
NoOptions ==
    [apiKey |-> Undefined, baseUrl |-> Undefined, defaultCollection |-> Undefined,
     defaultLimit |-> Undefined, generateAnswer |-> Undefined,
     expandQuery |-> Undefined, rerank |-> Undefined]

\* const { apiKey = process.env.AIRWEAVE_API_KEY, ..., rerank = true } = options
Destructure(options, envKey) ==
    [apiKey |-> DefaultTo(options.apiKey, envKey),
     baseUrl |-> options.baseUrl,
     defaultCollection |-> options.defaultCollection,
     defaultLimit |-> DefaultTo(options.defaultLimit, Num(DefaultLimit)),
     generateAnswer |-> DefaultTo(options.generateAnswer, Bool(FALSE)),
     expandQuery |-> DefaultTo(options.expandQuery, Bool(TRUE)),
     rerank |-> DefaultTo(options.rerank, Bool(TRUE))]

\* faulty variant: `if (apiKey === undefined) throw`, which lets "" through
ApiKeyMissingOnlyUndefined(apiKey) == apiKey.t = "undefined"

\* if (!apiKey) throw
ApiKeyMissing(apiKey) == ~Truthy(apiKey)

\* new AirweaveSDKClient({ apiKey, ...(baseUrl && { baseUrl }), frameworkName, frameworkVersion })
NewClient(apiKey, baseUrl) ==
    Spread([apiKey |-> apiKey,
            frameworkName |-> "vercel-ai-sdk",
            frameworkVersion |-> "1.0.0"],
           AndAnd(baseUrl, Obj([baseUrl |-> baseUrl])))

\* the whole factory: what it throws, or the closure of the tool it returns
airweaveSearch(options, envKey) ==
    LET c == Destructure(options, envKey) IN
    IF ApiKeyMissing(c.apiKey)
    THEN [threw |-> TRUE, error |-> ApiKeyRequired, tool |-> NoTool]
    ELSE [threw |-> FALSE, error |-> Undefined,
          tool |-> [client |-> NewClient(c.apiKey, c.baseUrl),
                    defaultCollection |-> c.defaultCollection,
                    defaultLimit |-> c.defaultLimit,
                    generateAnswer |-> c.generateAnswer,
                    expandQuery |-> c.expandQuery,
                    rerank |-> c.rerank]]

---------------------------------------------------------------------------
(* The tool's inputSchema.                                                 *)

\* z.string().min(1).max(1000)
QueryAccepted(query) ==
    /\ query.t = "string"
    /\ Len(query.v) >= MinQueryLength
    /\ Len(query.v) <= MaxQueryLength

\* z.string().optional()
CollectionAccepted(collection) == collection.t \in {"undefined", "string"}

\* z.number().min(1).max(100).optional()
LimitAccepted(limit) ==
    \/ limit.t = "undefined"
    \/ /\ limit.t = "number"
       /\ limit.v >= MinLimit * Denom
       /\ limit.v <= MaxLimit * Denom

\* z.object({ query, collection, limit })
InputAccepted(input) ==
    /\ QueryAccepted(input.query)
    /\ CollectionAccepted(input.collection)
    /\ LimitAccepted(input.limit)

---------------------------------------------------------------------------
(* The tool's execute.                                                     *)

\* const collectionId = collection ?? defaultCollection
ResolveCollection(collection, defaultCollection) ==
    Coalesce(collection, defaultCollection)

\* if (!collectionId) throw
CollectionMissing(collectionId) == ~Truthy(collectionId)

\* faulty variant: `defaultLimit ?? limit`, the operands swapped
EffectiveLimitDefaultFirst(limit, defaultLimit) == Coalesce(defaultLimit, limit)

\* limit: limit ?? defaultLimit
EffectiveLimit(limit, defaultLimit) == Coalesce(limit, defaultLimit)

\* faulty variant: expand_query and rerank take each other's value
RequestFlagsSwapped(t) ==
    [generate_answer |-> t.generateAnswer,
     expand_query |-> t.rerank,
     rerank |-> t.expandQuery]

\* the three flags of the request body, from the closure
RequestFlags(t) ==
    [generate_answer |-> t.generateAnswer,
     expand_query |-> t.expandQuery,
     rerank |-> t.rerank]

\* client.collections.search(collectionId, { query, limit, generate_answer, expand_query, rerank })
SearchRequest(t, input, collectionId) ==
    [client |-> t.client,
     collectionId |-> collectionId,
     body |-> [query |-> input.query,
               limit |-> EffectiveLimit(input.limit, t.defaultLimit)]
              @@ RequestFlags(t)]

\* faulty variant: execute keeps the collection and the limit it resolved as
\* the defaults of the closure
ExecuteCallRemembering(t, input) ==
    LET collectionId == ResolveCollection(input.collection, t.defaultCollection) IN
    IF CollectionMissing(collectionId)
    THEN [tool |-> t, pc |-> "failed", error |-> CollectionRequired, calls |-> <<>>]
    ELSE [tool |-> [t EXCEPT !.defaultCollection = collectionId,
                             !.defaultLimit = EffectiveLimit(input.limit, t.defaultLimit)],
          pc |-> "awaiting", error |-> Undefined,
          calls |-> <<SearchRequest(t, input, collectionId)>>]

\* execute, from its entry to its await: the closure it leaves, where it
\* stands, and the requests it has issued
ExecuteCall(t, input) ==
    LET collectionId == ResolveCollection(input.collection, t.defaultCollection) IN
    IF CollectionMissing(collectionId)
    THEN [tool |-> t, pc |-> "failed", error |-> CollectionRequired, calls |-> <<>>]
    ELSE [tool |-> t, pc |-> "awaiting", error |-> Undefined,
          calls |-> <<SearchRequest(t, input, collectionId)>>]

\* faulty variant: { results: response.results, answer: response.completion }
OutputAlwaysAnswer(response) ==
    [results |-> response.results, answer |-> response.completion]

\* { results: response.results, ...(response.completion && { answer: response.completion }) }
Output(response) ==
    Spread([results |-> response.results],
           AndAnd(response.completion, Obj([answer |-> response.completion])))

\* execute, resumed by the response of its remote call
ExecuteResume(t, e, response) ==
    [tool |-> t, pc |-> "done", output |-> Output(response), error |-> Undefined,
     calls |-> <<>>]

\* faulty variant: a failed remote call is issued again
ExecuteRetry(t, e, err) ==
    [tool |-> t, pc |-> "awaiting", output |-> Undefined, error |-> Undefined,
     calls |-> <<SearchRequest(t, e.input,
                               ResolveCollection(e.input.collection, t.defaultCollection))>>]

\* execute, resumed by the failure of its remote call: the await rethrows
ExecuteRethrow(t, e, err) ==
    [tool |-> t, pc |-> "failed", output |-> Undefined, error |-> err, calls |-> <<>>]

-------------------------------------------------------------------------------------------------------------------------------------------------
(* Inputs the behaviours draw from.  The input space is explored one       *)
(* scenario at a time: each scenario varies the inputs one part of the     *)
(* code reads and keeps the others at a plain value.                       *)

Scenarios ==
    {"credential", "collection", "limit", "flags", "validation", "response", "direct"}

RECURSIVE Repeat(_)
\* a string of n characters
Repeat(n) ==
    IF n = 0 THEN ""
    ELSE IF n = 1 THEN "a"
    ELSE Repeat(n \div 2) \o Repeat(n - (n \div 2))

LongestQuery == Repeat(MaxQueryLength)
TooLongQuery == Repeat(MaxQueryLength + 1)

OptionalFlag == {Undefined, Bool(TRUE), Bool(FALSE)}

CredentialOptions ==
    {[NoOptions EXCEPT !.apiKey = k, !.baseUrl = b, !.defaultCollection = Str("kb1")] :
       k \in {Undefined, Str(""), Str("sk-opt")},
       b \in {Undefined, Str(""), Str("https://self")}}

CollectionOptions ==
    {[NoOptions EXCEPT !.defaultCollection = c] : c \in {Undefined, Str(""), Str("kb1")}}

LimitOptions ==
    {[NoOptions EXCEPT !.defaultCollection = Str("kb1"), !.defaultLimit = l] :
       l \in {Undefined, Num(0), Num(20), NumPlusFraction(2)}}

FlagOptions ==
    {[NoOptions EXCEPT !.defaultCollection = Str("kb1"), !.generateAnswer = g,
                       !.expandQuery = x, !.rerank = r] :
       g \in OptionalFlag, x \in OptionalFlag, r \in OptionalFlag}

PlainOptions == {[NoOptions EXCEPT !.defaultCollection = Str("kb1")]}

\* as tests/e2e.ts builds directSearch
DirectOptions ==
    {[NoOptions EXCEPT !.defaultCollection = Str("kb1"), !.generateAnswer = Bool(TRUE)]}

\* the options passed to the factory
OptionsOf(s) ==
    CASE s = "credential" -> CredentialOptions
      [] s = "collection" -> CollectionOptions
      [] s = "limit" -> LimitOptions
      [] s = "flags" -> FlagOptions
      [] s = "direct" -> DirectOptions
      [] OTHER -> PlainOptions

CredentialEnv == {Undefined, Str(""), Str("sk-env")}

\* the values of the environment variable
EnvOf(s) == IF s = "credential" THEN CredentialEnv ELSE {Str("sk-env")}

Input(query, collection, limit) ==
    [query |-> query, collection |-> collection, limit |-> limit]

PlainInputs == {Input(Str("budget"), Undefined, Undefined)}

CollectionInputs ==
    {Input(Str("budget"), c, Undefined) : c \in {Undefined, Str(""), Str("kb2")}}

LimitInputs ==
    {Input(Str("budget"), Undefined, l) :
       l \in {Undefined, Num(0), Num(5), NumPlusFraction(2)}}

FlagInputs ==
    {Input(Str("budget"), Undefined, Undefined), Input(Str("test"), Str("kb2"), Num(5))}

ValidationInputs ==
    {Input(Str(q), Undefined, Undefined) : q \in {"", "a", LongestQuery, TooLongQuery}}
    \cup
    {Input(Str("budget"), Undefined, l) :
       l \in {Num(MinLimit - 1), Num(MinLimit), NumPlusFraction(MinLimit),
              Num(MaxLimit), NumPlusFraction(MaxLimit), Num(MaxLimit + 1),
              Num(0 - 1)}}

\* what tests/e2e.ts passes to execute, and inputs of the same types that the
\* inputSchema does not accept
DirectInputs ==
    {Input(Str("test"), Undefined, Num(5)),
     Input(Str("test"), Undefined, Num(0)),
     Input(Str(""), Str("kb2"), Undefined)}

\* the per-call inputs
InputsOf(s) ==
    CASE s = "collection" -> CollectionInputs
      [] s = "limit" -> LimitInputs
      [] s = "flags" -> FlagInputs
      [] s = "validation" -> ValidationInputs
      [] s = "direct" -> DirectInputs
      [] OTHER -> PlainInputs

\* score in tenths
Item(id) == [id |-> id, score |-> 9, payload |-> [name |-> "Doc"]]

Response(results, completion) == [results |-> results, completion |-> completion]

PlainResponses == {Response(<<Item("a1")>>, Undefined)}

AllResponses ==
    {Response(r, c) :
       r \in {<<>>, <<Item("a1")>>, <<Item("a1"), Item("a2")>>,
              <<Item("a2"), Item("a1")>>},
       c \in {Undefined, Null, Str(""), Str("X")}}

\* the responses of the remote service
ResponsesOf(s) ==
    CASE s = "response" -> AllResponses
      [] s = "direct" -> {Response(<<Item("a1")>>, Str("X"))}
      [] OTHER -> PlainResponses

ServerError == [name |-> "AirweaveSDKError", message |-> "status 500"]
TimeoutError == [name |-> "AirweaveSDKTimeoutError", message |-> "timeout"]

\* the failures of the remote call
ErrorsOf(s) == IF s = "response" THEN {ServerError, TimeoutError} ELSE {ServerError}

-----
(* The state machine.                                                      *)

Execs == 1..MaxExecs

Idle ==
    [pc |-> "idle", via |-> "none", input |-> Undefined, output |-> Undefined,
     error |-> Undefined]

NotConstructed ==
    [state |-> "none", options |-> Undefined, env |-> Undefined, error |-> Undefined]

Init ==
    /\ scenario \in Scenarios
    /\ env \in EnvOf(scenario)
    /\ construction = NotConstructed
    /\ tool = NoTool
    /\ execs = [i \in Execs |-> Idle]
    /\ sent = [i \in Execs |-> <<>>]
    /\ settled = [i \in Execs |-> <<>>]
    /\ inFlightPeak = 0

\* the environment variable is set, changed or removed
SetEnv ==
    \E v \in EnvOf(scenario) :
        /\ v # env
        /\ env' = v
        /\ UNCHANGED <<scenario, construction, tool, execs, sent, settled, inFlightPeak>>

\* the application calls airweaveSearch(options); it may call again after a throw
Construct ==
    \E options \in OptionsOf(scenario) :
        /\ construction.state # "returned"
        /\ LET r == airweaveSearch(options, env) IN
             /\ construction' =
                    [state |-> IF r.threw THEN "threw" ELSE "returned",
                     options |-> options, env |-> env, error |-> r.error]
             /\ tool' = r.tool
        /\ UNCHANGED <<scenario, env, execs, sent, settled, inFlightPeak>>

\* execute(input) runs up to its await
Run(i, input, via) ==
    LET r == ExecuteCall(tool, input) IN
        /\ execs' = [execs EXCEPT ![i] =
                        [pc |-> r.pc, via |-> via, input |-> input,
                         output |-> Undefined, error |-> r.error]]
        /\ sent' = [sent EXCEPT ![i] = @ \o r.calls]
        /\ tool' = r.tool
        /\ inFlightPeak' =
               LET n == Cardinality({j \in Execs : Len(settled[j]) < Len(sent'[j])}) IN
               IF n > inFlightPeak THEN n ELSE inFlightPeak
        /\ UNCHANGED <<scenario, env, construction, settled>>

\* the agent framework invokes the tool: it validates the input against the
\* inputSchema and calls execute only with an accepted input
Invoke ==
    \E i \in Execs, input \in InputsOf(scenario) :
        /\ tool # NoTool
        /\ execs[i].pc = "idle"
        /\ IF InputAccepted(input)
           THEN Run(i, input, "framework")
           ELSE /\ execs' = [execs EXCEPT ![i] =
                               [pc |-> "rejected", via |-> "framework", input |-> input,
                                output |-> Undefined, error |-> InvalidToolInput]]
                /\ UNCHANGED <<scenario, env, construction, tool, sent, settled, inFlightPeak>>

\* the application calls tool.execute(input, ...) itself, as tests/e2e.ts does
ExecuteDirect ==
    \E i \in Execs, input \in InputsOf(scenario) :
        /\ scenario = "direct"
        /\ tool # NoTool
        /\ execs[i].pc = "idle"
        /\ Run(i, input, "direct")

Pending(i) == Len(settled[i]) < Len(sent[i])

\* the remote call of invocation i resolves and execute returns
RemoteRespond ==
    \E i \in Execs, response \in ResponsesOf(scenario) :
        /\ execs[i].pc = "awaiting"
        /\ Pending(i)
        /\ LET r == ExecuteResume(tool, execs[i], response) IN
             /\ execs' = [execs EXCEPT ![i] =
                             [@ EXCEPT !.pc = r.pc, !.output = r.output,
                                       !.error = r.error]]
             /\ sent' = [sent EXCEPT ![i] = @ \o r.calls]
             /\ tool' = r.tool
        /\ settled' = [settled EXCEPT ![i] = Append(@, [ok |-> TRUE, value |-> response])]
        /\ UNCHANGED <<scenario, env, construction, inFlightPeak>>

\* the remote call of invocation i rejects and execute throws
RemoteFail ==
    \E i \in Execs, err \in ErrorsOf(scenario) :
        /\ execs[i].pc = "awaiting"
        /\ Pending(i)
        /\ LET r == ExecuteRethrow(tool, execs[i], err) IN
             /\ execs' = [execs EXCEPT ![i] =
                             [@ EXCEPT !.pc = r.pc, !.output = r.output,
                                       !.error = r.error]]
             /\ sent' = [sent EXCEPT ![i] = @ \o r.calls]
             /\ tool' = r.tool
        /\ settled' = [settled EXCEPT ![i] = Append(@, [ok |-> FALSE, value |-> err])]
        /\ UNCHANGED <<scenario, env, construction, inFlightPeak>>

Next ==
    \/ SetEnv
    \/ Construct
    \/ Invoke
    \/ ExecuteDirect
    \/ RemoteRespond
    \/ RemoteFail

Spec == Init /\ [][Next]_vars

---------------------------------------------------------------------------
(* Notions the properties share.                                           *)

Constructed == construction.state = "returned"

\* the configuration as the options and the environment of the construction
\* fix it, written out field by field
ConfiguredApiKey ==
    IF construction.options.apiKey = Undefined
    THEN construction.env
    ELSE construction.options.apiKey

ConfiguredLimit ==
    IF construction.options.defaultLimit = Undefined
    THEN Num(DefaultLimit)
    ELSE construction.options.defaultLimit

ConfiguredFlag(flag, default) == IF flag = Undefined THEN Bool(default) ELSE flag

\* invocation i has entered execute (the framework accepted its input, or the
\* application called execute itself)
Entered(i) == execs[i].pc \in {"awaiting", "done", "failed"}

\* a value is given: it is neither undefined nor null
Given(x) == x.t \notin {"undefined", "null"}

\* a string value that is present and not empty
NonEmpty(x) == x.t = "string" /\ x.v # ""

\* a number below / above the integer n
Below(x, n) == x.t = "number" /\ x.v < n * Denom
Above(x, n) == x.t = "number" /\ x.v > n * Denom

---------------------------------------------------------------------------
(* C1.  airweaveSearch(options) called when neither options.apiKey nor the *)
(* environment variable supplies a credential fails with the configuration *)
(* error, and neither a client nor a tool exists afterwards; and as long   *)
(* as no execution has been started, construction (successful or failed)   *)
(* has issued no remote search call.                                       *)
C1_NoCredentialNoTool ==
    /\ ( /\ construction.state # "none"
         /\ ~NonEmpty(construction.options.apiKey)
         /\ ~NonEmpty(construction.env) )
       => /\ construction.state = "threw"
          /\ construction.error = ApiKeyRequired
          /\ tool = NoTool
    /\ construction.state = "threw" => tool = NoTool
    /\ (\A i \in Execs : execs[i].pc = "idle") => (\A i \in Execs : sent[i] = <<>>)

\* a construction with an empty explicit key and an empty environment value threw
C1_Witness ==
    /\ construction.state = "threw"
    /\ construction.options.apiKey = Str("")
    /\ construction.env = Str("")

(* C2.  For every schema-valid input, execute targets the per-call         *)
(* collection if there is one, otherwise the default collection, and fails *)
(* with the configuration error, without a remote call, exactly when       *)
(* neither is present.  "Present" is read as "a non-empty string", the     *)
(* reading under which the code's `!collectionId` is the test of absence.  *)
C2_CollectionResolution ==
    \A i \in Execs :
        (Entered(i) /\ InputAccepted(execs[i].input)) =>
            LET collection == execs[i].input.collection
                neither == ~NonEmpty(collection) /\ ~NonEmpty(tool.defaultCollection)
                failedOnConfiguration ==
                    /\ execs[i].pc = "failed"
                    /\ execs[i].error = CollectionRequired
                    /\ sent[i] = <<>>
            IN  /\ neither <=> failedOnConfiguration
                /\ ~neither =>
                      /\ Len(sent[i]) >= 1
                      /\ sent[i][1].collectionId =
                            IF NonEmpty(collection) THEN collection
                            ELSE tool.defaultCollection

(* C3.  Every request's limit is the per-call limit if one is given,       *)
(* otherwise the configured defaultLimit, which is 10 when the options     *)
(* give none; the closure's default limit stays the configured one, so a   *)
(* per-call limit has no effect on any other call.                         *)
C3_EffectiveLimit ==
    /\ Constructed => tool.defaultLimit = ConfiguredLimit
    /\ \A i \in Execs : \A k \in 1..Len(sent[i]) :
          sent[i][k].body.limit =
              IF Given(execs[i].input.limit) THEN execs[i].input.limit
              ELSE ConfiguredLimit

\* one call went out with its own limit 5, another with the default 10
C3_Witness ==
    \E i, j \in Execs :
        /\ Len(sent[i]) = 1 /\ Len(sent[j]) = 1
        /\ execs[i].input.limit = Num(5) /\ sent[i][1].body.limit = Num(5)
        /\ execs[j].input.limit = Undefined /\ sent[j][1].body.limit = Num(DefaultLimit)
        /\ construction.options.defaultLimit = Undefined

(* C4.  Every request carries generate_answer, expand_query and rerank as  *)
(* the options of the construction fix them (false, true, true where the   *)
(* options give none), whatever the per-call input.                        *)
C4_FlagsFixed ==
    \A i \in Execs : \A k \in 1..Len(sent[i]) :
        /\ sent[i][k].body.generate_answer =
              ConfiguredFlag(construction.options.generateAnswer, FALSE)
        /\ sent[i][k].body.expand_query =
              ConfiguredFlag(construction.options.expandQuery, TRUE)
        /\ sent[i][k].body.rerank =
              ConfiguredFlag(construction.options.rerank, TRUE)

\* two calls with different inputs went out from a tool configured with
\* expandQuery false and rerank left to its default
C4_Witness ==
    \E i, j \in Execs :
        /\ Constructed
        /\ construction.options.expandQuery = Bool(FALSE)
        /\ construction.options.rerank = Undefined
        /\ Len(sent[i]) = 1 /\ Len(sent[j]) = 1
        /\ execs[i].input # execs[j].input
        /\ sent[i][1].body.expand_query = Bool(FALSE)
        /\ sent[j][1].body.rerank = Bool(TRUE)

(* C5.  When the remote call succeeded, the output's results are the       *)
(* response's results, same items in the same order, and the output has an *)
(* answer key exactly when the response's completion is a non-empty        *)
(* string, and then answer is that completion; the output has no other key.*)
C5_OutputShape ==
    \A i \in Execs :
        execs[i].pc = "done" =>
            LET response == settled[i][Len(settled[i])].value
                output == execs[i].output
            IN  /\ DOMAIN output \subseteq {"results", "answer"}
                /\ "results" \in DOMAIN output
                /\ output.results = response.results
                /\ "answer" \in DOMAIN output <=> NonEmpty(response.completion)
                /\ "answer" \in DOMAIN output => output.answer = response.completion

\* one execution returned an answer, another returned none for an empty completion
C5_Witness ==
    \E i, j \in Execs :
        /\ execs[i].pc = "done" /\ execs[j].pc = "done"
        /\ settled[i][1].value.completion = Str("X")
        /\ execs[i].output.answer = Str("X")
        /\ Len(execs[i].output.results) = 2
        /\ settled[j][1].value.completion = Str("")
        /\ "answer" \notin DOMAIN execs[j].output

(* C6.  An execution issues at most one remote call; when that call fails  *)
(* the execution fails with the very error the call raised and has no      *)
(* output; a finished execution that reached the remote has issued exactly *)
(* one call.                                                               *)
C6_FailurePropagates ==
    \A i \in Execs :
        /\ Len(sent[i]) <= 1
        /\ Len(settled[i]) <= Len(sent[i])
        /\ (Len(settled[i]) >= 1 /\ ~settled[i][1].ok) =>
              /\ execs[i].pc = "failed"
              /\ execs[i].error = settled[i][1].value
              /\ execs[i].output = Undefined
              /\ Len(sent[i]) = 1
        /\ execs[i].pc = "done" => Len(sent[i]) = 1 /\ settled[i][1].ok

\* a remote call timed out and its execution failed with that error
C6_Witness ==
    \E i \in Execs :
        /\ Len(settled[i]) = 1
        /\ settled[i][1] = [ok |-> FALSE, value |-> TimeoutError]
        /\ execs[i].pc = "failed"
        /\ execs[i].error = TimeoutError

(* C7.  A tool invocation whose input has an empty query, a query longer   *)
(* than 1000 characters, a limit below 1 or above 100, or a limit that is  *)
(* not an integer is rejected and makes no remote call; an input with a    *)
(* query of 1..1000 characters and a limit absent or an integer in 1..100  *)
(* is accepted.                                                            *)
C7_InputValidation ==
    \A i \in Execs :
        execs[i].via = "framework" =>
            LET query == execs[i].input.query
                limit == execs[i].input.limit
                bad == \/ Len(query.v) = 0
                       \/ Len(query.v) > MaxQueryLength
                       \/ Below(limit, MinLimit)
                       \/ Above(limit, MaxLimit)
                       \/ (limit.t = "number" /\ ~IsInteger(limit))
            IN  /\ bad => (execs[i].pc = "rejected" /\ sent[i] = <<>>)
                /\ ~bad => execs[i].pc # "rejected"

(* C8.  Construction succeeds whenever the explicit apiKey or the          *)
(* environment variable holds a non-empty credential; the client is bound  *)
(* to the explicit value when both are given; and every request, whatever  *)
(* the environment variable has become since, goes out with the credential *)
(* resolved at construction.                                               *)
C8_CredentialResolution ==
    /\ ( /\ construction.state # "none"
         /\ (NonEmpty(construction.options.apiKey) \/ NonEmpty(construction.env)) )
       => Constructed
    /\ (Constructed /\ NonEmpty(construction.options.apiKey)) =>
          tool.client.apiKey = construction.options.apiKey
    /\ Constructed =>
          \A i \in Execs : \A k \in 1..Len(sent[i]) :
              sent[i][k].client.apiKey = ConfiguredApiKey

(* C9.  Concurrent executions are independent: each request is the one its *)
(* own input and the configuration of the construction determine, each     *)
(* execution ends with the response or the error of its own remote call,   *)
(* and the closure (configuration and client) stays what the construction  *)
(* made it.                                                                *)
C9_Independent ==
    Constructed =>
        LET built == airweaveSearch(construction.options, construction.env).tool IN
        /\ tool = built
        /\ \A i \in Execs :
              /\ \A k \in 1..Len(sent[i]) :
                    sent[i][k] =
                        [client |-> built.client,
                         collectionId |->
                             IF Given(execs[i].input.collection)
                             THEN execs[i].input.collection
                             ELSE construction.options.defaultCollection,
                         body |->
                             [query |-> execs[i].input.query,
                              limit |-> IF Given(execs[i].input.limit)
                                        THEN execs[i].input.limit
                                        ELSE ConfiguredLimit,
                              generate_answer |-> built.generateAnswer,
                              expand_query |-> built.expandQuery,
                              rerank |-> built.rerank]]
              /\ execs[i].pc = "done" =>
                    /\ Len(settled[i]) = 1 /\ settled[i][1].ok
                    /\ execs[i].output.results = settled[i][1].value.results
              /\ (execs[i].pc = "failed" /\ sent[i] # <<>>) =>
                    /\ Len(settled[i]) = 1 /\ ~settled[i][1].ok
                    /\ execs[i].error = settled[i][1].value

\* two executions with different inputs were in flight together; one has
\* returned its response and the other has failed
C9_Witness ==
    \E i, j \in Execs :
        /\ inFlightPeak >= 2
        /\ execs[i].input # execs[j].input
        /\ execs[i].pc = "done" /\ sent[i] # <<>>
        /\ execs[j].pc = "failed" /\ sent[j] # <<>>

(* C10.  Every request that a tool invocation issues carries a limit that  *)
(* is a positive integer, and one in 1..100 when it is the per-call limit. *)
C10_LimitPositiveInteger ==
    \A i \in Execs :
        execs[i].via = "framework" =>
            \A k \in 1..Len(sent[i]) :
                LET limit == sent[i][k].body.limit IN
                /\ IsInteger(limit)
                /\ ~Below(limit, 1)
                /\ Given(execs[i].input.limit) => ~Above(limit, MaxLimit)

====
